---- MODULE Spec2Model ----
(***************************************************************************)
(* brainflayer (llamasoft fork): the candidate scanner of brainflayer.c.   *)
(*                                                                         *)
(* The module holds two state machines over one set of variables:          *)
(*   Spec        the whole program: argument check, filter load, the       *)
(*               OpenMP worker pool (critical sections getline/display,    *)
(*               the poll of signal_break, the atomic add) and SIGINT;     *)
(*               FairSpec is Spec with every thread scheduled fairly;      *)
(*   SpecSecret  make_secret of the HEXWALLET build as a pure function,    *)
(*               applied to hex inputs of every length 0..MaxHexLen.       *)
(*                                                                         *)
(* Bytes and characters are integers (ASCII codes for characters).  The    *)
(* digests and the curve engine are external: they are modelled as         *)
(* injective stand-ins (see SHA256, RIPEMD160, PointOf).                   *)
(***************************************************************************)
EXTENDS Integers, Sequences, FiniteSets, TLC

VARIABLES
    \* ---- process inputs (fixed by Init)
    argc,            \* main's argc
    filter_file,     \* the set of hash160 values the filter file answers "contained" for
    stdin,           \* the input stream, a sequence of characters
    attack_mode,     \* the compiled mode (attack_mode, lines 23-34)
    nthreads,        \* size of the OpenMP team (omp_get_max_threads)
    \* ---- process state
    main_pc, exit_status, bloom, ec_started, handler_installed,
    signal_break, line_count, stdin_pos, stdout,
    getline_owner, display_owner,
    \* ---- per-worker state (functions over 1..nthreads)
    pc, cur_line, cur_line_len, my_line_count,
    privkey_secret, pubkey, hash160_uncomp, hash160_comp,
    disp_comp, disp_idx,
    \* ---- history variables (not program state; they only record what happened)
    cur_no,          \* ordinal of the input line held in each worker's buffer
    runs,            \* ordinal -> number of times the line entered the pipeline
    handed,          \* ordinal -> the Candidate handed to make_secret
    hits,            \* ordinal -> the compression flags whose filter check answered true
    finished,        \* ordinals whose loop iteration ran to its end
    discarded,       \* ordinals read and then dropped at the poll
    sigpos,          \* lines consumed when signal_break first became non-zero (-1: not yet)
    \* ---- SpecSecret
    ms_pc, ms_input, ms_result

procvars == <<argc, filter_file, stdin, attack_mode, nthreads,
              main_pc, exit_status, bloom, ec_started, handler_installed,
              signal_break, line_count, stdin_pos, stdout,
              getline_owner, display_owner>>
workvars == <<pc, cur_line, cur_line_len, my_line_count,
              privkey_secret, pubkey, hash160_uncomp, hash160_comp,
              disp_comp, disp_idx>>
histvars == <<cur_no, runs, handed, hits, finished, discarded, sigpos>>
msvars   == <<ms_pc, ms_input, ms_result>>
vars     == <<procvars, workvars, histvars, msvars>>

----------------------------------------------------------------------------
(* Bounds of the model.                                                    *)

\* largest OpenMP team
MaxThreads == 2
\* most lines of an input stream
MaxLines == 2
\* hex inputs of SpecSecret are 0..MaxHexLen characters long
MaxHexLen == 67
\* number of digit patterns SpecSecret draws its inputs from
MaxSeed == 3

----------------------------------------------------------------------------
(* Program constants.                                                      *)

SHA256_DIGEST_LENGTH == 32
PUBKEY_UNCOMP_LEN == 65
PUBKEY_COMP_LEN == 33
SIGINT == 2
NL == 10
DISPLAY_COMPR == 1

\* an indeterminate byte: the content of an uninitialised buffer
Indet == 0 - 1

Zeros(n) == [i \in 1..n |-> 0]
IndetBytes(n) == [i \in 1..n |-> Indet]
HasIndet(s) == \E i \in DOMAIN s : s[i] = Indet

----------------------------------------------------------------------------
(* hex_to_bytes and make_secret.                                           *)

\* value of one ASCII hex digit
HexVal(c) ==
    IF c >= 48 /\ c <= 57 THEN c - 48
    ELSE IF c >= 97 /\ c <= 102 THEN c - 87
    ELSE c - 55

\* hex_to_bytes(input, len, out): the first len characters of input decoded to
\* ceil(len/2) bytes; an odd len makes the first digit a byte of its own
\* ("0x123 requires two bytes, 0x01 and 0x23").
hex_to_bytes(input, len) ==
    LET odd == len % 2
        n   == (len + 1) \div 2
    IN [k \in 1..n |->
          IF odd = 1
          THEN IF k = 1 THEN HexVal(input[1])
               ELSE 16 * HexVal(input[2 * k - 2]) + HexVal(input[2 * k - 1])
          ELSE 16 * HexVal(input[2 * k - 1]) + HexVal(input[2 * k])]

\* the clamp of line 55
ClampLen(input_len) ==
    IF input_len > 2 * SHA256_DIGEST_LENGTH THEN 2 * SHA256_DIGEST_LENGTH ELSE input_len

\* (the count without the rounding up, for comparison)
ByteCountFloor(input_len) == input_len \div 2
\* line 56: size_t byte_count = (input_len + 1) / 2
ByteCount(input_len) == (input_len + 1) \div 2

\* (the last len characters of the line, for comparison)
HexSourceTail(input_str, input_len, len) == SubSeq(input_str, input_len - len + 1, input_len)
\* line 59: the characters hex_to_bytes is handed: input_str itself, so the
\* first len characters of the line.
HexSource(input_str, input_len, len) == SubSeq(input_str, 1, len)

\* make_secret, HEXWALLET (lines 47-60).  out is the 32-byte output after the
\* call; first and count are the offset and size of hex_to_bytes' write into it
\* (byte offsets, 0-based as in the code).
make_secret_hex(input_str, input_len) ==
    LET len        == ClampLen(input_len)
        byte_count == ByteCount(len)
        first      == SHA256_DIGEST_LENGTH - byte_count
        decoded    == hex_to_bytes(HexSource(input_str, input_len, len), len)
    IN [out   |-> [i \in 1..SHA256_DIGEST_LENGTH |->
                      IF i - 1 >= first /\ i - first <= Len(decoded)
                      THEN decoded[i - first] ELSE 0],
        first |-> first,
        count |-> Len(decoded)]

\* SHA256 as an injective stand-in for inputs shorter than 31 bytes: the length,
\* then the bytes, each recoded by a bijection of 0..255, zero padded.
SHA256_32(data) ==
    [i \in 1..SHA256_DIGEST_LENGTH |->
        IF i = 1 THEN (Len(data) * 5 + 77) % 256
        ELSE IF i - 1 <= Len(data) THEN (data[i - 1] * 7 + 13) % 256
        ELSE 0]

\* make_secret (lines 40-61) in the compiled mode
make_secret(mode, input_str, input_len) ==
    IF mode = "Hexwallet" THEN make_secret_hex(input_str, input_len).out
    ELSE SHA256_32(SubSeq(input_str, 1, input_len))

----------------------------------------------------------------------------
(* The external collaborators: curve engine, digests, filter.              *)

\* the order n of secp256k1, big-endian
CurveOrder ==
    <<255, 255, 255, 255, 255, 255, 255, 255, 255, 255, 255, 255, 255, 255, 255, 254,
      186, 174, 220, 230, 175, 72, 160, 59, 191, 210, 94, 140, 208, 54, 65, 65>>

\* a < b as big-endian numbers of equal length
LexLess(a, b) ==
    \E i \in DOMAIN a : a[i] < b[i] /\ \A j \in 1..(i - 1) : a[j] = b[j]

\* the scalars the curve engine accepts: 0 < secret < n
ValidScalar(secret) ==
    /\ secret # Zeros(SHA256_DIGEST_LENGTH)
    /\ LexLess(secret, CurveOrder)

\* The uncompressed encoding of the point of a valid scalar: 0x04, X, Y.  The
\* scalar multiplication is external; X and Y are injective stand-ins (each byte
\* of the scalar recoded by a bijection of 0..255).
PointOf(secret) ==
    [i \in 1..PUBKEY_UNCOMP_LEN |->
        IF i = 1 THEN 4
        ELSE IF i <= 33 THEN (secret[i - 1] * 5 + (i - 1)) % 256
        ELSE (secret[i - 33] * 3 + 1) % 256]

\* What an uninitialised pubkey buffer can hold when it is first read: any
\* bytes; the model takes two patterns, with an even and an odd last byte.
\* (The filter files of the model hold hashes of keys only, so the filter
\* answers "not contained" for the hash of either pattern.)
Garbage ==
    {[i \in 1..PUBKEY_UNCOMP_LEN |-> 170], [i \in 1..PUBKEY_UNCOMP_LEN |-> 85]}

\* secp256k1_ecdsa_pubkey_create(pubkey, &pubkey_len, secret, 0): the contents
\* the pubkey buffer can have after the call.  On a rejected scalar the engine
\* reports failure and the buffer is left as it was (uninitialised stack bytes
\* on a worker's first call) or cleared.
secp256k1_ecdsa_pubkey_create(buf, secret) ==
    IF ValidScalar(secret) THEN {PointOf(secret)}
    ELSE (IF HasIndet(buf) THEN Garbage ELSE {buf}) \cup {Zeros(PUBKEY_UNCOMP_LEN)}

\* SHA256(data, n) and RIPEMD160(data): digests as terms over their input
SHA256(data, n) == [sha256 |-> SubSeq(data, 1, n)]
RIPEMD160(digest) == [ripemd160 |-> digest]

\* the content of a hash160 buffer before its first write
IndetHash == RIPEMD160(SHA256(<<Indet>>, 1))

\* (the prefix taken from the last byte of X, byte 32, for comparison)
CompressPrefixOfX(pk) == 2 + (pk[PUBKEY_COMP_LEN] % 2)
\* line 201: pubkey[0] = 0x02 | (pubkey[64] & 0x01)
\* (0x02 has bit 0 clear, so the bitwise or is a sum)
CompressPrefix(pk) == 2 + (pk[PUBKEY_UNCOMP_LEN] % 2)

\* lines 194-203 in a worker's buffers, statement by statement
KeyHashPipeline(pk) ==
    LET hu  == RIPEMD160(SHA256(pk, PUBKEY_UNCOMP_LEN))
        pk2 == [pk EXCEPT ![1] = CompressPrefix(pk)]
        hc  == RIPEMD160(SHA256(pk2, PUBKEY_COMP_LEN))
    IN [pubkey |-> pk2, uncomp |-> hu, comp |-> hc]

\* the two hash160 values of a valid secret, computed from the point
Hash160Uncomp(secret) == RIPEMD160(SHA256(PointOf(secret), PUBKEY_UNCOMP_LEN))
Hash160Comp(secret) ==
    LET p == PointOf(secret)
    IN RIPEMD160(SHA256(<<2 + (p[PUBKEY_UNCOMP_LEN] % 2)>> \o SubSeq(p, 2, PUBKEY_COMP_LEN),
                        PUBKEY_COMP_LEN))

\* bloom_open(path): the handle of a loaded filter
NullBloom == [ptr |-> 0, bits |-> {}]
bloom_open(file) == [ptr |-> 1, bits |-> file]

\* bloom_chk_hash160(bloom, h): the answer of the filter
bloom_chk_hash160(b, h) == h \in b.bits

----------------------------------------------------------------------------
(* The input stream.                                                       *)

\* index of the first line terminator after position p, or Len(s) if none
LineEnd(s, p) ==
    IF \E e \in (p + 1)..Len(s) : s[e] = NL
    THEN CHOOSE e \in (p + 1)..Len(s) : s[e] = NL /\ \A j \in (p + 1)..(e - 1) : s[j] # NL
    ELSE Len(s)

\* getline(&cur_line, &size, stdin) at stream position p: the return value, the
\* buffer (line terminator included) and the new position; -1 at end of input.
getline(s, p, old_line) ==
    IF p >= Len(s) THEN [ret |-> 0 - 1, line |-> old_line, pos |-> p]
    ELSE [ret |-> LineEnd(s, p) - p, line |-> SubSeq(s, p + 1, LineEnd(s, p)),
          pos |-> LineEnd(s, p)]

\* number of lines in the first p characters of the stream, p a position
\* between lines (a last line without terminator counts as a line)
LinesBefore(s, p) ==
    Cardinality({i \in 1..p : s[i] = NL})
        + (IF p > 0 /\ p = Len(s) /\ s[p] # NL THEN 1 ELSE 0)

\* the n-th line of the stream as it stands in the stream, terminator included
RECURSIVE LineStart(_, _)
LineStart(s, n) == IF n = 1 THEN 0 ELSE LineEnd(s, LineStart(s, n - 1))
RawLine(s, n) == SubSeq(s, LineStart(s, n) + 1, LineEnd(s, LineStart(s, n)))

----------------------------------------------------------------------------
(* Spec: the program.                                                      *)

Workers == 1..nthreads
TotalLines == LinesBefore(stdin, Len(stdin))
Consumed == LinesBefore(stdin, stdin_pos)

\* The input streams of the model: up to MaxLines lines, each the text "1" or
\* empty, each ended by a line terminator, except that the last line may lack it.
LineTexts == {<<>>, <<49>>}
RECURSIVE TerminatedStreams(_)
TerminatedStreams(n) ==
    IF n = 0 THEN {<<>>}
    ELSE {s \o l \o <<NL>> : s \in TerminatedStreams(n - 1), l \in LineTexts}
Streams ==
    UNION {TerminatedStreams(n) : n \in 0..MaxLines}
      \cup {s \o l : s \in UNION {TerminatedStreams(n) : n \in 0..(MaxLines - 1)},
                     l \in LineTexts \ {<<>>}}
Modes == {"Brainwallet", "Hexwallet"}

\* the filter files of the model: they answer "contained" for any subset of the
\* two hash160 values of the candidate "1"
FilterFiles(mode) ==
    LET secret == make_secret(mode, <<49>>, 1)
    IN SUBSET {Hash160Uncomp(secret), Hash160Comp(secret)}

\* pc values of a worker that has passed the poll of its current iteration
PastPoll == {"derive", "pipeline", "chk_u", "chk_c", "disp_wait", "disp"}

Init ==
    /\ argc \in {1, 2, 3}
    /\ attack_mode \in Modes
    /\ filter_file \in FilterFiles(attack_mode)
    /\ stdin \in Streams
    /\ nthreads \in 1..MaxThreads
    /\ main_pc = "args" /\ exit_status = Indet /\ bloom = NullBloom
    /\ ec_started = FALSE /\ handler_installed = FALSE
    /\ signal_break = 0 /\ line_count = 0 /\ stdin_pos = 0 /\ stdout = <<>>
    /\ getline_owner = 0 /\ display_owner = 0
    /\ pc = [w \in Workers |-> "unspawned"]
    /\ cur_line = [w \in Workers |-> <<>>]
    /\ cur_line_len = [w \in Workers |-> 0]
    /\ my_line_count = [w \in Workers |-> 0]
    /\ privkey_secret = [w \in Workers |-> IndetBytes(SHA256_DIGEST_LENGTH)]
    /\ pubkey = [w \in Workers |-> IndetBytes(PUBKEY_UNCOMP_LEN)]
    /\ hash160_uncomp = [w \in Workers |-> IndetHash]
    /\ hash160_comp = [w \in Workers |-> IndetHash]
    /\ disp_comp = [w \in Workers |-> 0]
    /\ disp_idx = [w \in Workers |-> 0]
    /\ cur_no = [w \in Workers |-> 0]
    /\ runs = [i \in 1..TotalLines |-> 0]
    /\ handed = <<>>
    /\ hits = [i \in 1..TotalLines |-> {}]
    /\ finished = {} /\ discarded = {}
    /\ sigpos = Indet
    /\ ms_pc = "none" /\ ms_input = <<>>
    /\ ms_result = [out |-> <<>>, first |-> 0, count |-> 0]

\* ---- main, before and after the parallel region

\* (a check that lets every argument count through, for comparison)
ArgcAny(n) == TRUE
\* line 124: if (argc == 2)
ArgcOk(n) == n = 2

\* (a load whose result is not kept, for comparison)
LoadNothing(file) == NullBloom
\* line 128: bloom = bloom_open(argv[1])
LoadFilter(file) == bloom_open(file)

\* lines 124-137: the argument check and the filter load
MainArgs ==
    /\ main_pc = "args"
    /\ IF ArgcOk(argc)
       THEN /\ bloom' = LoadFilter(filter_file)
            /\ main_pc' = "ec_start"
            /\ UNCHANGED exit_status
       ELSE /\ exit_status' = 1
            /\ main_pc' = "exited"
            /\ UNCHANGED bloom
    /\ UNCHANGED <<argc, filter_file, stdin, attack_mode, nthreads, ec_started,
                   handler_installed, signal_break, line_count, stdin_pos, stdout,
                   getline_owner, display_owner, workvars, histvars, msvars>>

\* line 141: secp256k1_start()
MainEcStart ==
    /\ main_pc = "ec_start"
    /\ ec_started' = TRUE
    /\ main_pc' = "signal_setup"
    /\ UNCHANGED <<argc, filter_file, stdin, attack_mode, nthreads, exit_status, bloom,
                   handler_installed, signal_break, line_count, stdin_pos, stdout,
                   getline_owner, display_owner, workvars, histvars, msvars>>

\* line 144: signal_setup()
signal_setup ==
    /\ main_pc = "signal_setup"
    /\ handler_installed' = TRUE
    /\ main_pc' = "spawn"
    /\ UNCHANGED <<argc, filter_file, stdin, attack_mode, nthreads, exit_status, bloom,
                   ec_started, signal_break, line_count, stdin_pos, stdout,
                   getline_owner, display_owner, workvars, histvars, msvars>>

\* line 154: the team enters the parallel region
MainSpawn ==
    /\ main_pc = "spawn"
    /\ pc' = [w \in Workers |-> "top"]
    /\ main_pc' = "parallel"
    /\ UNCHANGED <<argc, filter_file, stdin, attack_mode, nthreads, exit_status, bloom,
                   ec_started, handler_installed, signal_break, line_count, stdin_pos,
                   stdout, getline_owner, display_owner,
                   cur_line, cur_line_len, my_line_count, privkey_secret, pubkey,
                   hash160_uncomp, hash160_comp, disp_comp, disp_idx, histvars, msvars>>

\* lines 227-240: the region ends when every worker has left it; secp256k1_stop
\* and return 0
MainJoin ==
    /\ main_pc = "parallel"
    /\ \A w \in Workers : pc[w] = "stopped"
    /\ ec_started' = FALSE
    /\ exit_status' = 0
    /\ main_pc' = "exited"
    /\ UNCHANGED <<argc, filter_file, stdin, attack_mode, nthreads, bloom,
                   handler_installed, signal_break, line_count, stdin_pos, stdout,
                   getline_owner, display_owner, workvars, histvars, msvars>>

\* lines 96-97 and 99-106: SIGINT.  With the handler installed signal_handle
\* stores the signal number; before that the default disposition ends the process.
signal_handle ==
    /\ main_pc \notin {"exited", "killed"}
    /\ IF handler_installed
       THEN /\ signal_break' = SIGINT
            /\ sigpos' = IF signal_break = 0 THEN Consumed ELSE sigpos
            /\ UNCHANGED <<main_pc, exit_status>>
       ELSE /\ main_pc' = "killed"
            /\ exit_status' = 128 + SIGINT
            /\ UNCHANGED <<signal_break, sigpos>>
    /\ UNCHANGED <<argc, filter_file, stdin, attack_mode, nthreads, bloom, ec_started,
                   handler_installed, line_count, stdin_pos, stdout,
                   getline_owner, display_owner, workvars,
                   cur_no, runs, handed, hits, finished, discarded, msvars>>

\* ---- a worker of the parallel region (lines 154-227)

\* (a region that excludes nobody, for comparison)
CriticalAlwaysFree(owner) == TRUE
\* #pragma omp critical (name): the region can be entered when nobody is in it
CriticalFree(owner) == owner = 0

\* (a region that is never given back, for comparison)
CriticalKeep(owner) == owner
\* the closing brace of a critical region (lines 176, 210, 217): nobody is in it
CriticalLeave(owner) == 0

\* lines 173-174: enter critical (getline)
GetlineEnter(w) ==
    /\ pc[w] = "top"
    /\ CriticalFree(getline_owner)
    /\ getline_owner' = w
    /\ pc' = [pc EXCEPT ![w] = "getline"]
    /\ UNCHANGED <<argc, filter_file, stdin, attack_mode, nthreads, main_pc, exit_status,
                   bloom, ec_started, handler_installed, signal_break, line_count,
                   stdin_pos, stdout, display_owner,
                   cur_line, cur_line_len, my_line_count, privkey_secret, pubkey,
                   hash160_uncomp, hash160_comp, disp_comp, disp_idx, histvars, msvars>>

\* lines 175-176: getline, its result stored in the unsigned cur_line_len, and
\* the end of the critical region.  An unsigned int is held as its 32-bit
\* pattern read as a two's-complement number, so -1 stays -1.
GetlineRead(w) ==
    /\ pc[w] = "getline"
    /\ LET r == getline(stdin, stdin_pos, cur_line[w])
       IN /\ cur_line' = [cur_line EXCEPT ![w] = r.line]
          /\ cur_line_len' = [cur_line_len EXCEPT ![w] = r.ret]
          /\ stdin_pos' = r.pos
          /\ cur_no' = [cur_no EXCEPT ![w] = IF r.ret = 0 - 1 THEN 0
                                             ELSE LinesBefore(stdin, r.pos)]
    /\ getline_owner' = CriticalLeave(getline_owner)
    /\ pc' = [pc EXCEPT ![w] = "poll"]
    /\ UNCHANGED <<argc, filter_file, stdin, attack_mode, nthreads, main_pc, exit_status,
                   bloom, ec_started, handler_installed, signal_break, line_count,
                   stdout, display_owner,
                   my_line_count, privkey_secret, pubkey,
                   hash160_uncomp, hash160_comp, disp_comp, disp_idx,
                   runs, handed, hits, finished, discarded, sigpos, msvars>>

\* (a break on end of input alone, for comparison)
BreakOnEofOnly(len, flag) == len = 0 - 1
\* line 179: the condition of the break
BreakCondition(len, flag) == len = 0 - 1 \/ flag # 0

\* line 179: if ( cur_line_len == -1 || signal_break != 0 ) { break; }
Poll(w) ==
    /\ pc[w] = "poll"
    /\ IF BreakCondition(cur_line_len[w], signal_break)
       THEN /\ pc' = [pc EXCEPT ![w] = "cleanup"]
            /\ discarded' = IF cur_line_len[w] # 0 - 1
                            THEN discarded \cup {cur_no[w]} ELSE discarded
       ELSE /\ pc' = [pc EXCEPT ![w] = "derive"]
            /\ UNCHANGED discarded
    /\ UNCHANGED <<procvars,
                   cur_line, cur_line_len, my_line_count, privkey_secret, pubkey,
                   hash160_uncomp, hash160_comp, disp_comp, disp_idx,
                   cur_no, runs, handed, hits, finished, sigpos, msvars>>

\* (a counter that is left as it is, for comparison)
CountNone(n) == n
\* line 180: ++my_line_count
CountLine(n) == n + 1

\* lines 182-184: cur_line[ --cur_line_len ] = 0 with cur_line_len = strlen(cur_line):
\* the last character of the buffer is cut off, whatever it is
TrimLine(line) == SubSeq(line, 1, Len(line) - 1)

\* lines 180-189: count the line, trim it, make the secret
Derive(w) ==
    /\ pc[w] = "derive"
    /\ LET word == TrimLine(cur_line[w])
       IN /\ my_line_count' = [my_line_count EXCEPT ![w] = CountLine(@)]
          /\ cur_line' = [cur_line EXCEPT ![w] = word]
          /\ privkey_secret' = [privkey_secret EXCEPT
                                  ![w] = make_secret(attack_mode, word, Len(word))]
          /\ runs' = [runs EXCEPT ![cur_no[w]] = @ + 1]
          /\ handed' = (cur_no[w] :> word) @@ handed
    /\ pc' = [pc EXCEPT ![w] = "pipeline"]
    /\ UNCHANGED <<procvars, cur_line_len, pubkey, hash160_uncomp, hash160_comp,
                   disp_comp, disp_idx,
                   cur_no, hits, finished, discarded, sigpos, msvars>>

\* (one instance of the hash buffers for the whole team, as with the former
\* globals, for comparison)
ThreadShared(w) == 1
\* lines 161-166: hash160_comp and hash160_uncomp are declared inside the
\* parallel region ("pass2hash160 has been moved here"), so thread w uses its
\* own instance of them
ThreadPrivate(w) == w

\* (the compressed lookup taken straight after the hashes, for comparison)
FirstCheckComp == "chk_c"
\* line 206: the statement after the hashes is the lookup of hash160_uncomp
FirstCheck == "chk_u"

\* lines 190-203: the public key (the return value of the engine is not looked
\* at), the uncompressed hash, the compression in place, the compressed hash
PipelineCompute(w) ==
    /\ pc[w] = "pipeline"
    /\ \E pk \in secp256k1_ecdsa_pubkey_create(pubkey[w], privkey_secret[w]) :
          LET r == KeyHashPipeline(pk)
          IN /\ pubkey' = [pubkey EXCEPT ![w] = r.pubkey]
             /\ hash160_uncomp' = [hash160_uncomp EXCEPT ![ThreadPrivate(w)] = r.uncomp]
             /\ hash160_comp' = [hash160_comp EXCEPT ![ThreadPrivate(w)] = r.comp]
    /\ pc' = [pc EXCEPT ![w] = FirstCheck]
    /\ UNCHANGED <<procvars, cur_line, cur_line_len, my_line_count, privkey_secret,
                   disp_comp, disp_idx, histvars, msvars>>

\* (the second lookup made with the first hash again, for comparison)
SecondLookupHashSame(w) == hash160_uncomp[ThreadPrivate(w)]
\* line 213: the hash the second lookup is made with
SecondLookupHash(w) == hash160_comp[ThreadPrivate(w)]

\* (a report that is given up once signal_break is set, for comparison)
ReportUnlessSignalled(hit, flag) == hit /\ flag = 0
\* lines 206 and 213: display is called on the filter's answer alone;
\* signal_break is not read again after the poll
ReportCondition(hit, flag) == hit

\* line 206: if ( bloom_chk_hash160(bloom, hash160_uncomp.ul) )
FilterCheckUncomp(w) ==
    /\ pc[w] = "chk_u"
    /\ LET hit == bloom_chk_hash160(bloom, hash160_uncomp[ThreadPrivate(w)])
       IN /\ hits' = IF hit THEN [hits EXCEPT ![cur_no[w]] = @ \cup {0}] ELSE hits
          /\ IF ReportCondition(hit, signal_break)
             THEN /\ pc' = [pc EXCEPT ![w] = "disp_wait"]
                  /\ disp_comp' = [disp_comp EXCEPT ![w] = 0]
             ELSE /\ pc' = [pc EXCEPT ![w] = "chk_c"]
                  /\ UNCHANGED disp_comp
    /\ UNCHANGED <<procvars, cur_line, cur_line_len, my_line_count, privkey_secret,
                   pubkey, hash160_uncomp, hash160_comp, disp_idx,
                   cur_no, runs, handed, finished, discarded, sigpos, msvars>>

\* line 213: if ( bloom_chk_hash160(bloom, hash160_comp.ul) ); without a hit the
\* iteration ends (line 220)
FilterCheckComp(w) ==
    /\ pc[w] = "chk_c"
    /\ LET hit == bloom_chk_hash160(bloom, SecondLookupHash(w))
       IN /\ hits' = IF hit THEN [hits EXCEPT ![cur_no[w]] = @ \cup {1}] ELSE hits
          /\ IF ReportCondition(hit, signal_break)
             THEN /\ pc' = [pc EXCEPT ![w] = "disp_wait"]
                  /\ disp_comp' = [disp_comp EXCEPT ![w] = 1]
                  /\ UNCHANGED finished
             ELSE /\ pc' = [pc EXCEPT ![w] = "top"]
                  /\ finished' = finished \cup {cur_no[w]}
                  /\ UNCHANGED disp_comp
    /\ UNCHANGED <<procvars, cur_line, cur_line_len, my_line_count, privkey_secret,
                   pubkey, hash160_uncomp, hash160_comp, disp_idx,
                   cur_no, runs, handed, discarded, sigpos, msvars>>

\* lines 207 and 214: enter critical (display)
DisplayEnter(w) ==
    /\ pc[w] = "disp_wait"
    /\ CriticalFree(display_owner)
    /\ display_owner' = w
    /\ disp_idx' = [disp_idx EXCEPT ![w] = 1]
    /\ pc' = [pc EXCEPT ![w] = "disp"]
    /\ UNCHANGED <<argc, filter_file, stdin, attack_mode, nthreads, main_pc, exit_status,
                   bloom, ec_started, handler_installed, signal_break, line_count,
                   stdin_pos, stdout, getline_owner,
                   cur_line, cur_line_len, my_line_count, privkey_secret, pubkey,
                   hash160_uncomp, hash160_comp, disp_comp, histvars, msvars>>

\* lines 70-91: the fprintf calls of display, in order, in a build with
\* DISPLAY_COMPR set and DISPLAY_SECRET, DISPLAY_HASH160, DISPLAY_WIF and
\* DISPLAY_ADDRESS left undefined (so 0, their fprintf calls compiled out).
DisplayFields == IF DISPLAY_COMPR > 0 THEN <<"compr", "word">> ELSE <<"word">>

\* lines 87 and 91: the text one fprintf writes
FieldText(field, input_word, compressed) ==
    IF field = "compr" THEN <<(IF compressed > 0 THEN 99 ELSE 117), 58>>
    ELSE input_word \o <<NL>>

\* One fprintf of display(cur_line, privkey_secret, hash, compressed) (lines
\* 209, 216, 68-92); after the last one the critical region ends and the worker
\* goes on to the second lookup or to the next iteration.
DisplayField(w) ==
    /\ pc[w] = "disp"
    /\ stdout' = Append(stdout,
          [w          |-> w,
           no         |-> cur_no[w],
           input_word |-> cur_line[w],
           secret     |-> privkey_secret[w],
           hash       |-> IF disp_comp[w] = 0 THEN hash160_uncomp[ThreadPrivate(w)]
                                               ELSE hash160_comp[ThreadPrivate(w)],
           compressed |-> disp_comp[w],
           field      |-> DisplayFields[disp_idx[w]],
           text       |-> FieldText(DisplayFields[disp_idx[w]], cur_line[w], disp_comp[w])])
    /\ IF disp_idx[w] < Len(DisplayFields)
       THEN /\ disp_idx' = [disp_idx EXCEPT ![w] = @ + 1]
            /\ UNCHANGED <<pc, display_owner, finished>>
       ELSE /\ disp_idx' = [disp_idx EXCEPT ![w] = 0]
            /\ display_owner' = CriticalLeave(display_owner)
            /\ pc' = [pc EXCEPT ![w] = IF disp_comp[w] = 0 THEN "chk_c" ELSE "top"]
            /\ finished' = IF disp_comp[w] = 0 THEN finished
                           ELSE finished \cup {cur_no[w]}
    /\ UNCHANGED <<argc, filter_file, stdin, attack_mode, nthreads, main_pc, exit_status,
                   bloom, ec_started, handler_installed, signal_break, line_count,
                   stdin_pos, getline_owner,
                   cur_line, cur_line_len, my_line_count, privkey_secret, pubkey,
                   hash160_uncomp, hash160_comp, disp_comp,
                   cur_no, runs, handed, hits, discarded, sigpos, msvars>>

\* (an addition that loses the other workers' updates, for comparison)
AddOverwrite(total, mine) == mine
\* lines 225-226: #pragma omp atomic  line_count += my_line_count
AtomicAdd(total, mine) == total + mine

\* lines 222-227: free the buffer, add the private counter, leave the region
Cleanup(w) ==
    /\ pc[w] = "cleanup"
    /\ line_count' = AtomicAdd(line_count, my_line_count[w])
    /\ cur_line' = [cur_line EXCEPT ![w] = <<>>]
    /\ pc' = [pc EXCEPT ![w] = "stopped"]
    /\ UNCHANGED <<argc, filter_file, stdin, attack_mode, nthreads, main_pc, exit_status,
                   bloom, ec_started, handler_installed, signal_break,
                   stdin_pos, stdout, getline_owner, display_owner,
                   cur_line_len, my_line_count, privkey_secret, pubkey,
                   hash160_uncomp, hash160_comp, disp_comp, disp_idx, histvars, msvars>>

Next ==
    \/ MainArgs
    \/ MainEcStart
    \/ signal_setup
    \/ MainSpawn
    \/ MainJoin
    \/ signal_handle
    \/ \E w \in Workers : GetlineEnter(w)
    \/ \E w \in Workers : GetlineRead(w)
    \/ \E w \in Workers : Poll(w)
    \/ \E w \in Workers : Derive(w)
    \/ \E w \in Workers : PipelineCompute(w)
    \/ \E w \in Workers : FilterCheckUncomp(w)
    \/ \E w \in Workers : FilterCheckComp(w)
    \/ \E w \in Workers : DisplayEnter(w)
    \/ \E w \in Workers : DisplayField(w)
    \/ \E w \in Workers : Cleanup(w)

Spec == Init /\ [][Next]_vars

\* ---- the program under fair scheduling

\* the steps of main's own thread outside the parallel region
MainStep == MainArgs \/ MainEcStart \/ signal_setup \/ MainSpawn \/ MainJoin

\* the steps of thread w of the team
WorkerStep(w) ==
    /\ w \in Workers
    /\ \/ GetlineEnter(w) \/ GetlineRead(w) \/ Poll(w) \/ Derive(w)
       \/ PipelineCompute(w) \/ FilterCheckUncomp(w) \/ FilterCheckComp(w)
       \/ DisplayEnter(w) \/ DisplayField(w) \/ Cleanup(w)

\* Every thread is an OS thread that runs whenever it can take a step; nothing
\* is assumed about who wins a critical region, nor about SIGINT.
FairSpec ==
    /\ Spec
    /\ WF_vars(MainStep)
    /\ \A w \in 1..MaxThreads : WF_vars(WorkerStep(w))

----------------------------------------------------------------------------
(* SpecSecret: make_secret of the HEXWALLET build on hex strings.          *)

HexDigits == <<48, 49, 50, 51, 52, 53, 54, 55, 56, 57, 97, 98, 99, 100, 101, 102>>

\* the hex string of length n of pattern seed: digit i is (3 i + i^2 seed + seed) mod 16
HexPattern(n, seed) ==
    [i \in 1..n |-> HexDigits[1 + ((3 * i + i * i * seed + seed) % 16)]]

\* "1234" and "123", the examples of make_secret's comments
ExampleInputs == {<<49, 50, 51, 52>>, <<49, 50, 51>>}

InitSecret ==
    /\ ms_pc = "call"
    /\ \/ \E n \in 0..MaxHexLen, seed \in 0..MaxSeed : ms_input = HexPattern(n, seed)
       \/ ms_input \in ExampleInputs
    /\ ms_result = [out |-> IndetBytes(SHA256_DIGEST_LENGTH), first |-> 0, count |-> 0]
    /\ argc = 0 /\ filter_file = {} /\ stdin = <<>> /\ attack_mode = "Hexwallet"
    /\ nthreads = 0 /\ main_pc = "none" /\ exit_status = Indet /\ bloom = {}
    /\ ec_started = FALSE /\ handler_installed = FALSE /\ signal_break = 0
    /\ line_count = 0 /\ stdin_pos = 0 /\ stdout = <<>>
    /\ getline_owner = 0 /\ display_owner = 0
    /\ pc = <<>> /\ cur_line = <<>> /\ cur_line_len = <<>> /\ my_line_count = <<>>
    /\ privkey_secret = <<>> /\ pubkey = <<>> /\ hash160_uncomp = <<>>
    /\ hash160_comp = <<>> /\ disp_comp = <<>> /\ disp_idx = <<>>
    /\ cur_no = <<>> /\ runs = <<>> /\ handed = <<>> /\ hits = <<>>
    /\ finished = {} /\ discarded = {} /\ sigpos = Indet

CallMakeSecret ==
    /\ ms_pc = "call"
    /\ ms_result' = make_secret_hex(ms_input, Len(ms_input))
    /\ ms_pc' = "returned"
    /\ UNCHANGED <<ms_input, procvars, workvars, histvars>>

NextSecret == CallMakeSecret

SpecSecret == InitSecret /\ [][NextSecret]_vars

----------------------------------------------------------------------------
(* Notions the properties are stated with.                                 *)

AllStopped == main_pc \in {"parallel", "exited"} /\ \A w \in Workers : pc[w] = "stopped"
ExitedNormally == main_pc = "exited" /\ exit_status = 0

\* the sum of the private counters of threads 1..n
RECURSIVE SumCounts(_)
SumCounts(n) == IF n = 0 THEN 0 ELSE my_line_count[n] + SumCounts(n - 1)

\* the complete records on stdout of the display call for line i with flag c
Records(i, c) ==
    {k \in DOMAIN stdout :
        stdout[k].no = i /\ stdout[k].compressed = c /\ stdout[k].field = "word"}

\* line i was reported once for every filter check of its iteration that hit
Reported(i) ==
    \A c \in {0, 1} : Cardinality(Records(i, c)) = (IF c \in hits[i] THEN 1 ELSE 0)

\* a line of the stream without its line terminator
StripTerminator(line) ==
    IF line # <<>> /\ line[Len(line)] = NL THEN SubSeq(line, 1, Len(line) - 1) ELSE line

\* the bytes of an even-length hex string, pair by pair
DecodePairs(cs) ==
    [k \in 1..(Len(cs) \div 2) |-> 16 * HexVal(cs[2 * k - 1]) + HexVal(cs[2 * k])]

----------------------------------------------------------------------------
(* Properties.                                                             *)

\* C1: in a run in which signal_break is never set, once all workers have
\* stopped line_count equals the number N of input lines, and every line went
\* through the pipeline exactly once, to its end.
C1_ExactlyOnce ==
    (AllStopped /\ signal_break = 0) =>
        /\ line_count = TotalLines
        /\ \A i \in 1..TotalLines : runs[i] = 1 /\ i \in finished

C1_Witness ==
    /\ AllStopped /\ signal_break = 0
    /\ nthreads >= 2 /\ TotalLines >= 2
    /\ \A w \in Workers : my_line_count[w] >= 1

\* C2 as claimed: at a normal exit, every line that had been consumed when
\* signal_break became non-zero has been fully processed and reported.
C2_DrainAllClaimed ==
    (ExitedNormally /\ sigpos >= 0) =>
        \A i \in 1..sigpos : i \in finished /\ Reported(i)

\* C2 as amended: at a normal exit, every consumed line that passed the poll
\* (its worker read signal_break as zero) has been processed to the end of its
\* iteration and reported once per hit; every other consumed line was dropped
\* at the poll, unprocessed, and that only happens with signal_break set.
C2_DrainPolled ==
    ExitedNormally =>
        \A i \in 1..Consumed :
            \/ runs[i] = 1 /\ i \in finished /\ Reported(i) /\ i \notin discarded
            \/ /\ runs[i] = 0 /\ i \in discarded /\ i \notin finished
               /\ signal_break # 0 /\ hits[i] = {} /\ Records(i, 0) \cup Records(i, 1) = {}

\* two lines were consumed when the signal came: one worker took its line past
\* the poll and reported it, the other worker dropped its line at the poll
C2_Witness ==
    /\ ExitedNormally /\ sigpos >= 2 /\ nthreads >= 2
    /\ \E w1, w2 \in Workers :
          /\ my_line_count[w1] = 1 /\ my_line_count[w2] = 0
          /\ \E i \in 1..sigpos : i \in finished /\ hits[i] # {} /\ Reported(i)
          /\ cur_no[w2] \in 1..sigpos /\ cur_no[w2] \in discarded

\* C3 as claimed: once signal_break is non-zero the input position never advances.
C3_NoReadAfterSignal == [][signal_break # 0 => stdin_pos' = stdin_pos]_vars

\* C3 as amended: once signal_break is non-zero, every worker consumes at most
\* one further line (so at most nthreads lines in all), and no line consumed
\* after that moment enters the pipeline.
C3_AtMostOneReadEach ==
    signal_break # 0 =>
        /\ sigpos >= 0 /\ Consumed >= sigpos
        /\ Consumed - sigpos <= nthreads
        /\ \A i \in (sigpos + 1)..Consumed : runs[i] = 0 /\ i \notin finished
        /\ \A w \in Workers :
              (pc[w] \in PastPoll) => cur_no[w] <= sigpos

C3_Witness ==
    /\ signal_break # 0 /\ nthreads >= 2
    /\ Consumed - sigpos = nthreads
    /\ \A i \in (sigpos + 1)..Consumed : i \in discarded

\* C4: at most one worker is inside the display section, and stdout is a
\* sequence of whole records: the fprintf outputs of one display call stand
\* together, in the order of display, never mixed with those of another call.
C4_OutputAtomic ==
    /\ Cardinality({w \in Workers : pc[w] = "disp"}) <= 1
    /\ \A k \in DOMAIN stdout :
          LET f     == ((k - 1) % Len(DisplayFields)) + 1
              first == stdout[k - f + 1]
          IN /\ stdout[k].field = DisplayFields[f]
             /\ stdout[k].w = first.w
             /\ stdout[k].no = first.no
             /\ stdout[k].compressed = first.compressed

\* one worker is in the middle of a record while another waits with a hit
C4_Witness ==
    \E w1, w2 \in Workers :
        /\ w1 # w2
        /\ pc[w1] = "disp" /\ disp_idx[w1] = Len(DisplayFields)
        /\ pc[w2] = "disp_wait"
        /\ stdout # <<>>

\* C5 as claimed: no record is ever written for a Candidate whose secret the
\* curve engine rejects.
C5_InvalidScalarSkipped ==
    \A k \in DOMAIN stdout : ValidScalar(stdout[k].secret)

\* C6 as claimed: a hex input of more than 64 characters gives the secret of
\* its last 64 characters.
C6_HexClampLast ==
    (ms_pc = "returned" /\ Len(ms_input) > 2 * SHA256_DIGEST_LENGTH) =>
        ms_result.out = DecodePairs(SubSeq(ms_input,
                                           Len(ms_input) - 2 * SHA256_DIGEST_LENGTH + 1,
                                           Len(ms_input)))

\* C6 as amended: a hex input of more than 64 characters gives the secret of
\* its first 64 characters; the characters after the 64th are the ones dropped.
C6_HexClampFirst ==
    (ms_pc = "returned" /\ Len(ms_input) > 2 * SHA256_DIGEST_LENGTH) =>
        /\ ms_result.out = DecodePairs(SubSeq(ms_input, 1, 2 * SHA256_DIGEST_LENGTH))
        /\ ms_result.first = 0 /\ ms_result.count = SHA256_DIGEST_LENGTH

C6_Witness ==
    /\ ms_pc = "returned" /\ Len(ms_input) > 2 * SHA256_DIGEST_LENGTH
    /\ DecodePairs(SubSeq(ms_input, 1, 2 * SHA256_DIGEST_LENGTH))
         # DecodePairs(SubSeq(ms_input, Len(ms_input) - 2 * SHA256_DIGEST_LENGTH + 1,
                              Len(ms_input)))

\* C7: a hex input of L <= 64 characters gives 32 - ceil(L/2) zero bytes
\* followed by the ceil(L/2) decoded bytes (an odd L read as if a "0" stood in
\* front), and the write of the decoded bytes lies within bytes 0..31.
C7_HexRightJustified ==
    (ms_pc = "returned" /\ Len(ms_input) <= 2 * SHA256_DIGEST_LENGTH) =>
        LET L      == Len(ms_input)
            n      == (L + 1) \div 2
            padded == IF L % 2 = 1 THEN <<48>> \o ms_input ELSE ms_input
        IN /\ Len(ms_result.out) = SHA256_DIGEST_LENGTH
           /\ \A i \in 1..(SHA256_DIGEST_LENGTH - n) : ms_result.out[i] = 0
           /\ \A k \in 1..n :
                 ms_result.out[SHA256_DIGEST_LENGTH - n + k] = DecodePairs(padded)[k]
           /\ ms_result.count = n
           /\ ms_result.first >= 0
           /\ ms_result.first + ms_result.count <= SHA256_DIGEST_LENGTH

\* "1234" gives 30 zero bytes, then 0x12, 0x34
C7_Witness ==
    /\ ms_pc = "returned" /\ ms_input = <<49, 50, 51, 52>>
    /\ ms_result.out = [i \in 1..32 |-> IF i = 31 THEN 18 ELSE IF i = 32 THEN 52 ELSE 0]

\* C8: after the pipeline step of a Candidate with a valid secret, byte 0 of
\* the key buffer is 0x02 for an even last Y byte of the uncompressed key and
\* 0x03 for an odd one, bytes 1..32 are the X of the uncompressed key, the
\* uncompressed hash is that of the 65-byte key as the engine gave it, and the
\* compressed hash is that of the first 33 bytes of the buffer.
C8_CompressionParity ==
    \A w \in Workers :
        (pc[w] \in {"chk_u", "chk_c", "disp_wait", "disp"}
            /\ ValidScalar(privkey_secret[w])) =>
            LET U == PointOf(privkey_secret[w])
            IN /\ U[1] = 4
               /\ pubkey[w][1] = (IF U[PUBKEY_UNCOMP_LEN] % 2 = 0 THEN 2 ELSE 3)
               /\ \A i \in 2..PUBKEY_COMP_LEN : pubkey[w][i] = U[i]
               /\ hash160_uncomp[w] = RIPEMD160(SHA256(U, PUBKEY_UNCOMP_LEN))
               /\ hash160_comp[w] = RIPEMD160(SHA256(pubkey[w], PUBKEY_COMP_LEN))

C8_Witness ==
    \E w \in Workers :
        /\ pc[w] = "chk_c" /\ ValidScalar(privkey_secret[w])
        /\ attack_mode = "Hexwallet"
        /\ pubkey[w][1] = 2
        /\ pubkey[w][PUBKEY_UNCOMP_LEN] % 2 = 0

\* C9: a Candidate with a valid secret whose iteration is over has one record
\* flagged uncompressed if the filter holds its uncompressed hash160 and none
\* otherwise, and likewise, independently, for the compressed one; every such
\* record carries the flag letter of its encoding and ends with the Candidate.
C9_IndependentLookups ==
    \A i \in finished :
        LET secret == make_secret(attack_mode, handed[i], Len(handed[i]))
        IN ValidScalar(secret) =>
            /\ Cardinality(Records(i, 0))
                 = (IF Hash160Uncomp(secret) \in bloom.bits THEN 1 ELSE 0)
            /\ Cardinality(Records(i, 1))
                 = (IF Hash160Comp(secret) \in bloom.bits THEN 1 ELSE 0)
            /\ \A k \in DOMAIN stdout :
                  stdout[k].no = i =>
                     /\ stdout[k].input_word = handed[i]
                     /\ stdout[k].field = "word" => stdout[k].text = handed[i] \o <<NL>>
                     /\ stdout[k].field = "compr" =>
                           stdout[k].text = <<(IF stdout[k].compressed = 0 THEN 117 ELSE 99), 58>>

\* the filter holds only the uncompressed hash of a Candidate: one record, flagged u
C9_Witness ==
    \E i \in finished :
        LET secret == make_secret(attack_mode, handed[i], Len(handed[i]))
        IN /\ ValidScalar(secret)
           /\ Hash160Uncomp(secret) \in bloom.bits
           /\ Hash160Comp(secret) \notin bloom.bits
           /\ Cardinality(Records(i, 0)) = 1 /\ Cardinality(Records(i, 1)) = 0

\* C10 as claimed: the Candidate handed to make_secret, and printed as the last
\* field of a record, is the line of the stream without its line terminator.
C10_CandidateIsLine ==
    /\ \A i \in DOMAIN handed : handed[i] = StripTerminator(RawLine(stdin, i))
    /\ \A k \in DOMAIN stdout :
          stdout[k].field = "word" =>
             stdout[k].text = StripTerminator(RawLine(stdin, stdout[k].no)) \o <<NL>>

\* C11: with argc other than 2 the process never gets past the argument check:
\* no worker is spawned, no input is consumed, nothing is written to stdout,
\* the filter is not loaded, the curve engine and the signal handler are never
\* set up, and the process ends with a non-zero status (1 from exit(1)).
C11_BadArgcFatal ==
    argc # 2 =>
        /\ main_pc \in {"args", "exited", "killed"}
        /\ \A w \in Workers : pc[w] = "unspawned"
        /\ stdin_pos = 0 /\ stdout = <<>> /\ line_count = 0
        /\ bloom = NullBloom
        /\ ~ec_started /\ ~handler_installed /\ signal_break = 0
        /\ main_pc = "exited" => exit_status = 1
        /\ main_pc = "killed" => exit_status > 0

C11_Witness ==
    /\ argc # 2 /\ main_pc = "exited" /\ exit_status = 1
    /\ stdin # <<>> /\ filter_file # {}

\* C12: under fair scheduling, from the moment the SIGINT handler is installed,
\* whether or not (and whenever) SIGINT arrives, every worker eventually is
\* stopped, line_count is the sum of the private counters, and the process has
\* exited with status 0.
C12_Terminates ==
    handler_installed ~>
        (ExitedNormally /\ AllStopped /\ line_count = SumCounts(nthreads))

\* an interrupted run of two workers that has ended with status 0
C12_Witness ==
    /\ ExitedNormally /\ AllStopped
    /\ signal_break # 0 /\ nthreads >= 2 /\ discarded # {}
    /\ line_count = SumCounts(nthreads) /\ line_count >= 1

\* C13: at most one worker is inside the getline section; a worker is in it
\* exactly between entering it and the return of getline (no other step of the
\* loop is taken inside), so the test of end of input and of signal_break, and
\* with it the decision to stop, is made by a worker that has left the section.
C13_InputSerialized ==
    /\ Cardinality({w \in Workers : pc[w] = "getline"}) <= 1
    /\ \A w \in Workers : (getline_owner = w) <=> (pc[w] = "getline")
    /\ getline_owner \in Workers \cup {0}
    /\ \A w \in Workers : pc[w] \in {"poll", "cleanup", "stopped"} => getline_owner # w

\* one worker decides at the poll while the other one is reading the next line
C13_Witness ==
    \E w1, w2 \in Workers :
        /\ pc[w1] = "poll" /\ cur_line_len[w1] = 0 - 1
        /\ pc[w2] = "getline" /\ getline_owner = w2

\* where a worker that is past the poll goes next, by lines 180-220: the only
\* branches are the two answers of the filter
PipelineSuccessor(w) ==
    CASE pc[w] = "derive"    -> "pipeline"
      [] pc[w] = "pipeline"  -> "chk_u"
      [] pc[w] = "chk_u"     -> IF bloom_chk_hash160(bloom, hash160_uncomp[w])
                                THEN "disp_wait" ELSE "chk_c"
      [] pc[w] = "chk_c"     -> IF bloom_chk_hash160(bloom, hash160_comp[w])
                                THEN "disp_wait" ELSE "top"
      [] pc[w] = "disp_wait" -> "disp"
      [] pc[w] = "disp"      -> IF disp_comp[w] = 0 THEN "chk_c" ELSE "top"

\* C14: a worker that has passed the poll goes through derive, the hashes, both
\* filter checks and the report of every hit whatever signal_break is by then:
\* its steps never lead to the exit of the loop and go where lines 180-220 lead
\* without reading signal_break, and every line that entered the pipeline is
\* either still in its worker's hands or has finished its iteration with one
\* record per hit.
C14_NoMidPipelineAbort ==
    /\ [][\A w \in Workers :
             (pc[w] \in PastPoll /\ pc'[w] # pc[w]) => pc'[w] = PipelineSuccessor(w)]_vars
    /\ [](\A i \in 1..TotalLines :
             runs[i] >= 1 =>
                \/ \E w \in Workers : pc[w] \in PastPoll /\ cur_no[w] = i
                \/ i \in finished /\ Reported(i))

\* SIGINT has come while a worker was between the poll and the end of its
\* iteration; the worker has written the first record and is writing the second
C14_Witness ==
    \E w \in Workers :
        /\ signal_break # 0 /\ sigpos = cur_no[w]
        /\ pc[w] = "disp" /\ disp_comp[w] = 1 /\ disp_idx[w] = Len(DisplayFields)
        /\ Cardinality(Records(cur_no[w], 0)) = 1

\* worker w is in the parallel region and has not left its loop for good
Running(w) == pc[w] \notin {"unspawned", "stopped"}

\* worker w stands before a critical region that another worker is in
Waiting(w) ==
    \/ pc[w] = "top" /\ getline_owner # 0
    \/ pc[w] = "disp_wait" /\ display_owner # 0

\* C15: a worker that derives, hashes or checks the filter is in neither
\* critical region; no worker is in both regions at once; and whenever some
\* worker is still running, some running worker is not waiting for a region.
C15_SectionsDisjoint ==
    /\ \A w \in Workers :
          pc[w] \in {"derive", "pipeline", "chk_u", "chk_c"} =>
              getline_owner # w /\ display_owner # w
    /\ \A w \in Workers : ~(getline_owner = w /\ display_owner = w)
    /\ \A w \in Workers : (display_owner = w) <=> (pc[w] = "disp")
    /\ (\E w \in Workers : Running(w)) =>
          \E w \in Workers : Running(w) /\ ~Waiting(w)

\* one worker reads a line while another one writes a record
C15_Witness ==
    \E w1, w2 \in Workers :
        /\ pc[w1] = "getline" /\ getline_owner = w1
        /\ pc[w2] = "disp" /\ display_owner = w2

\* the sum of the private counters of those of threads 1..n that have stopped
RECURSIVE SumStopped(_)
SumStopped(n) ==
    IF n = 0 THEN 0
    ELSE (IF pc[n] = "stopped" THEN my_line_count[n] ELSE 0) + SumStopped(n - 1)

\* C16: line_count always is the sum of the private counters of the workers
\* that have left the region (so it is 0 until one has, every worker adds its
\* counter once, and at the end it is the sum of all counters); a private
\* counter changes only by its own worker counting a line, by one, which
\* leaves line_count and the other counters alone, and never after the worker
\* has added it.
C16_CountersCombined ==
    /\ [](line_count = SumStopped(nthreads))
    /\ [][\A w \in Workers :
             my_line_count'[w] # my_line_count[w] =>
                /\ pc[w] = "derive" /\ pc'[w] = "pipeline"
                /\ my_line_count'[w] = my_line_count[w] + 1
                /\ line_count' = line_count
                /\ \A v \in Workers \ {w} : my_line_count'[v] = my_line_count[v]]_vars

\* one worker has added its counter, the other one is still scanning
C16_Witness ==
    \E w1, w2 \in Workers :
        /\ pc[w1] = "stopped" /\ my_line_count[w1] = 1
        /\ pc[w2] \in PastPoll /\ my_line_count[w2] = 1
        /\ line_count = 1

\* the buffers of worker w: line, secret, public key, both hashes
Buffers(w) ==
    <<cur_line[w], cur_line_len[w], privkey_secret[w], pubkey[w],
      hash160_uncomp[w], hash160_comp[w]>>

\* C17: a step that changes a buffer of worker w is a step of worker w and
\* changes no buffer of another worker; and every record on stdout was written
\* by the one worker that read its line, with the Candidate that worker handed
\* to make_secret, the secret of that Candidate and, for a valid secret, the
\* hash160 of that secret in the record's encoding.
C17_WorkerIsolation ==
    /\ [][\A w \in Workers :
             Buffers(w)' # Buffers(w) =>
                /\ pc'[w] # pc[w]
                /\ \A v \in Workers \ {w} : pc'[v] = pc[v] /\ Buffers(v)' = Buffers(v)]_vars
    /\ [](\A k \in DOMAIN stdout :
             LET r == stdout[k]
             IN /\ \A v \in Workers \ {r.w} : cur_no[v] # r.no
                /\ r.no \in DOMAIN handed
                /\ r.input_word = handed[r.no]
                /\ r.secret = make_secret(attack_mode, handed[r.no], Len(handed[r.no]))
                /\ ValidScalar(r.secret) =>
                      r.hash = (IF r.compressed = 0 THEN Hash160Uncomp(r.secret)
                                ELSE Hash160Comp(r.secret)))

\* a worker writes the record of "1" while the other one, holding a different
\* Candidate, has computed other hashes into its own buffers
C17_Witness ==
    \E w1, w2 \in Workers :
        /\ w1 # w2
        /\ pc[w1] = "disp" /\ stdout # <<>> /\ stdout[Len(stdout)].w = w1
        /\ pc[w2] \in {"chk_u", "chk_c"}
        /\ cur_line[w1] # cur_line[w2]
        /\ hash160_uncomp[w1] # hash160_uncomp[w2]

\* C18: bloom is assigned once, by main's filter load, with no worker spawned
\* and no input consumed; no other step changes it; and from the spawn of the
\* team to the exit of the process it is the handle of the filter file.
C18_FilterSetOnce ==
    /\ [][bloom' # bloom =>
             /\ main_pc = "args" /\ main_pc' = "ec_start"
             /\ bloom = NullBloom /\ bloom' # NullBloom
             /\ \A w \in Workers : pc[w] = "unspawned"
             /\ stdin_pos = 0 /\ stdout = <<>>]_vars
    /\ []((\E w \in Workers : pc[w] # "unspawned") =>
             bloom.ptr # 0 /\ bloom.bits = filter_file)

\* a run that has queried the filter, hit, and ended
C18_Witness ==
    /\ ExitedNormally /\ stdout # <<>> /\ filter_file # {}
    /\ bloom.bits = filter_file /\ bloom.ptr # 0

\* the lines that entered the pipeline
Processed == {i \in 1..TotalLines : runs[i] >= 1}

\* C19: once all workers have stopped, interrupted or not, line_count is the
\* number of lines that entered the pipeline, each of them once; the consumed
\* lines that are not counted are the ones dropped at the poll, which happens
\* with signal_break set only, to lines that were never processed, and to at
\* most one line per worker (the last one it read); so the number of consumed
\* lines minus line_count lies between 0 and the size of the team.
C19_CountIsProcessed ==
    AllStopped =>
        /\ line_count = Cardinality(Processed)
        /\ \A i \in Processed : runs[i] = 1
        /\ Consumed - line_count = Cardinality(discarded)
        /\ Consumed - line_count >= 0 /\ Consumed - line_count <= nthreads
        /\ discarded \cap Processed = {}
        /\ discarded # {} => signal_break # 0
        /\ \A i \in discarded :
              Cardinality({w \in Workers : cur_no[w] = i}) = 1

\* an interrupted run of two workers: one line counted, one line dropped
C19_Witness ==
    /\ AllStopped /\ nthreads = 2 /\ Consumed = 2
    /\ line_count = 1 /\ Cardinality(discarded) = 1

\* C20: whenever a record flagged compressed is on stdout for a Candidate
\* whose uncompressed hash160 the filter holds, the Candidate's record flagged
\* uncompressed is already there, before it; the two records of a Candidate
\* never stand in the order compressed, uncompressed; and between the two the
\* worker is outside the display section.
C20_UncompressedFirst ==
    /\ \A i \in 1..TotalLines :
          /\ \A k0 \in Records(i, 0), k1 \in Records(i, 1) : k0 < k1
          /\ (Records(i, 1) # {} /\ i \in DOMAIN handed) =>
                LET secret == make_secret(attack_mode, handed[i], Len(handed[i]))
                IN (ValidScalar(secret) /\ bloom_chk_hash160(bloom, Hash160Uncomp(secret)))
                      => Records(i, 0) # {}
    /\ \A w \in Workers : pc[w] = "chk_c" => display_owner # w

\* the record of another worker stands between the two records of a Candidate
C20_Witness ==
    \E i \in 1..TotalLines :
        \E k0 \in Records(i, 0), k1 \in Records(i, 1) :
            \E k \in (k0 + 1)..(k1 - 1) :
                stdout[k].field = "word" /\ stdout[k].w # stdout[k0].w

====
